---- MODULE Spec2Model ----
(***************************************************************************)
(* Model of the tool-calling agent of agentic-ai: the ToolRegistry         *)
(* (utils.py) and AgentExecutor.run with _execute_tool and                 *)
(* _finalize_response (main.py), over the tools of tools.py.               *)
(*                                                                         *)
(* Python values are modelled as follows.                                  *)
(*   - text is a sequence of string tokens, so that formatting and         *)
(*     json.dumps build text out of pieces instead of being the identity;  *)
(*   - an insertion-ordered dict is a sequence of its items;               *)
(*   - a JSON value a tool returns is [kind, body], body the tokens of     *)
(*     its content; the tools of tools.py return dicts read from JSON or   *)
(*     built from strings, so every returned value can be serialized;      *)
(*   - an exception a tool raises derives from Exception.                  *)
(* The response of the model is text the program does not control: it may  *)
(* be anything, conforming to the requested schema or not.                 *)
(* Two specifications share the variables: SpecRegistry drives             *)
(* ToolRegistry.register over arbitrary calls, Spec drives one             *)
(* AgentExecutor.run over the registry main.py builds.                     *)
(***************************************************************************)
EXTENDS Integers, Sequences, FiniteSets, TLC

VARIABLES
    tools,            \* ToolRegistry.tools: ordered dict name -> descriptor
    history,          \* every register call made so far, in call order
    pc,               \* position of AgentExecutor.run
    failedAt,         \* where the exception that ended the run was raised
    user_query,       \* argument of run
    content,          \* message content of the decision-phase response
    tool_calls,       \* the sequence the for loop of run iterates over
    idx,              \* number of decisions the loop has finished
    messages,         \* local list messages of run
    tool_results,     \* local list tool_results of run
    running,          \* the tool call in flight, or NoCall
    calls,            \* log of tool call events (call / return / raise)
    sentDecision,     \* message list sent to the model in the decision phase
    sentSynthesis,    \* message list sent to the model in the synthesis phase
    answer            \* value returned by run

vars == <<tools, history, pc, failedAt, user_query, content, tool_calls, idx,
          messages, tool_results, running, calls, sentDecision, sentSynthesis,
          answer>>

runVars == <<pc, failedAt, user_query, content, tool_calls, idx, messages,
             tool_results, running, calls, sentDecision, sentSynthesis, answer>>

----------------------------------------------------------------------------
(* Bounds of the model *)

\* register calls explored by SpecRegistry
MaxRegs == 3

\* entries of the tool_calls array of a decision-phase response
MaxDecisions == 2

----------------------------------------------------------------------------
(* Python constants *)

\* Python's None: what dict.get returns for an absent key
None == "None"

\* a key absent from a JSON object
Missing == "<absent>"

\* a JSON array or object where a string is expected: not hashable
Unhashable == "<unhashable>"

----------------------------------------------------------------------------
(* ToolRegistry, utils.py *)

\* index of name in the ordered dict, 0 when absent
IndexOf(d, name) ==
    IF \E i \in 1..Len(d) : d[i].name = name
    THEN CHOOSE i \in 1..Len(d) : d[i].name = name
    ELSE 0

\* the mutant of register: an existing name keeps its first descriptor
register_keep_first(d, name, function, description, parameters) ==
    IF IndexOf(d, name) = 0
    THEN Append(d, [name |-> name, function |-> function,
                    description |-> description, parameters |-> parameters])
    ELSE d

\* self.tools[name] = {"function":..., "description":..., "parameters":...}
register(d, name, function, description, parameters) ==
    LET entry == [name |-> name, function |-> function,
                  description |-> description, parameters |-> parameters]
        i == IndexOf(d, name)
    IN  IF i = 0 THEN Append(d, entry) ELSE [d EXCEPT ![i] = entry]

\* the mutant of get_description_for_prompt: the whole descriptor is copied
get_description_with_function(d) ==
    [i \in 1..Len(d) |->
        [name |-> d[i].name,
         value |-> [description |-> d[i].description,
                    parameters |-> d[i].parameters,
                    function |-> d[i].function]]]

\* {name: {"description":..., "parameters":...} for name, entry in tools.items()}
get_description_for_prompt(d) ==
    [i \in 1..Len(d) |->
        [name |-> d[i].name,
         value |-> [description |-> d[i].description,
                    parameters |-> d[i].parameters]]]

\* self.tools.get(name, {}).get("function")
get_callable(d, name) ==
    LET i == IndexOf(d, name)
    IN  IF i = 0 THEN None ELSE d[i].function

----------------------------------------------------------------------------
(* The registry main.py builds, lines 13-38 *)

WeatherSpec == << <<"latitude", "float - The latitude of the location.">>,
                  <<"longitude", "float - The longitude of the location.">> >>

RetrieverSpec == << <<"question", "string - The question you want to ask based on the document context.">> >>

ProgramRegistrations ==
    << [name |-> "get_weather", function |-> "get_weather",
        description |-> "Retrieves current weather data",
        parameters |-> WeatherSpec],
       [name |-> "get_time_now", function |-> "get_time_now",
        description |-> "Returns the current local time",
        parameters |-> << >>],
       [name |-> "retriever", function |-> "retriever",
        description |-> "Retrieves an answer using RAG",
        parameters |-> RetrieverSpec] >>

RECURSIVE RegisterAll(_)
RegisterAll(regs) ==
    IF regs = << >> THEN << >>
    ELSE LET r == regs[Len(regs)]
         IN  register(RegisterAll(SubSeq(regs, 1, Len(regs) - 1)),
                      r.name, r.function, r.description, r.parameters)

----------------------------------------------------------------------------
(* Text and JSON *)

SystemMessage(text) == [role |-> "system", content |-> text]
UserMessage(text) == [role |-> "user", content |-> text]
AssistantMessage(text) == [role |-> "assistant", content |-> text]

\* a Python str holding text, as a JSON value
StrValue(text) == [kind |-> "string", body |-> text]

\* a JSON object whose content is the tokens text
ObjValue(text) == [kind |-> "object", body |-> text]

\* json.dumps of a value a tool call produced
dumps_value(v) ==
    IF v.kind = "string" THEN <<"\"">> \o v.body \o <<"\"">>
    ELSE <<"{">> \o v.body \o <<"}">>

RECURSIVE dumps_items(_)
\* the items of a dict, "key": value, ...
dumps_items(items) ==
    IF items = << >> THEN << >>
    ELSE <<"\"", items[1][1], "\": ", items[1][2]>>
         \o (IF Len(items) > 1 THEN <<", ">> ELSE << >>)
         \o dumps_items(Tail(items))

\* json.dumps of the parameters value of a decision
dumps_parameters(p) ==
    IF p.kind = "object" THEN <<"{">> \o dumps_items(p.items) \o <<"}">>
    ELSE <<"[]">>

\* json.dumps(decision) for a decision that is a JSON object: the keys that
\* are present, in order
dumps_decision(decision) ==
    <<"{">>
    \o (IF decision.decision = Missing THEN << >>
        ELSE <<"\"decision\": \"", decision.decision, "\", ">>)
    \o (IF decision.reason = Missing THEN << >>
        ELSE <<"\"reason\": \"", decision.reason, "\", ">>)
    \o (IF decision.function = Missing THEN << >>
        ELSE <<"\"function\": \"", decision.function, "\", ">>)
    \o (IF decision.parameters.kind = "absent" THEN << >>
        ELSE <<"\"parameters\": ">> \o dumps_parameters(decision.parameters))
    \o <<"}">>

RECURSIVE dumps_manifest(_)
\* json.dumps(self.tool_registry.get_description_for_prompt(), indent=2)
dumps_manifest(manifest) ==
    IF manifest = << >> THEN << >>
    ELSE <<"\"", manifest[1].name, "\": {\"description\": \"",
           manifest[1].value.description, "\", \"parameters\": {">>
         \o dumps_items(manifest[1].value.parameters)
         \o <<"}}">>
         \o (IF Len(manifest) > 1 THEN <<", ">> ELSE << >>)
         \o dumps_manifest(Tail(manifest))

\* AgentExecutor._generate_instruction
_generate_instruction(d) ==
    <<"You are an intelligent AI assistant ... Available tools: {">>
    \o dumps_manifest(get_description_for_prompt(d))
    \o <<"} Instructions: ... Return ONLY valid JSON like: ...">>

\* the SystemMessage text of _finalize_response
SynthesisInstruction ==
    <<"You now have access to the results provided by the tools. ...">>

----------------------------------------------------------------------------
(* The tools, tools.py *)

\* callable(func)
Callable(f) == f \in {"get_weather", "get_time_now", "retriever"}

\* the keyword parameters of each tool; none has a default
Signature(f) ==
    CASE f = "get_weather" -> {"latitude", "longitude"}
      [] f = "get_time_now" -> {}
      [] f = "retriever" -> {"question"}
      [] OTHER -> {}

\* what the body of each tool can return
ReturnValues(f) ==
    CASE f = "get_weather" ->
            {ObjValue(<<"\"temperature_2m\": 11.3, \"wind_speed_10m\": 7.9">>)}
      [] f = "get_time_now" ->
            {ObjValue(<<"\"time\": \"2026-01-01 09:00:00\"">>),
             ObjValue(<<"\"time\": \"2026-01-01 09:00:01\"">>)}
      [] f = "retriever" ->
            {ObjValue(<<"\"answer\": {\"query\": ..., \"result\": ...}">>)}
      [] OTHER -> {}

\* str(e) of what the body of each tool can raise
RaiseMessages(f) ==
    CASE f = "get_weather" -> {<<"'current'">>, <<"Connection refused">>}
      [] f = "get_time_now" -> {}
      [] f = "retriever" -> {<<"Connection failed">>}
      [] OTHER -> {}

\* the keys of a keyword-argument dict
Keys(items) == {items[i][1] : i \in 1..Len(items)}

\* func called with args as keyword arguments: the ways the call can end
Outcomes(f, args) ==
    IF args.kind # "object"
    THEN {[kind |-> "raise",
           value |-> StrValue(<<"argument after ** must be a mapping">>)]}
    ELSE IF Keys(args.items) # Signature(f)
    THEN {[kind |-> "raise",
           value |-> StrValue(<<f, "() got unexpected or missing arguments">>)]}
    ELSE {[kind |-> "return", value |-> v] : v \in ReturnValues(f)}
         \cup {[kind |-> "raise", value |-> StrValue(m)] : m \in RaiseMessages(f)}

----------------------------------------------------------------------------
(* What the model transport can answer in the decision phase *)

AbsentParameters == [kind |-> "absent", items |-> << >>]
EmptyParameters == [kind |-> "object", items |-> << >>]
WeatherParameters ==
    [kind |-> "object",
     items |-> << <<"latitude", "48.8566">>, <<"longitude", "2.3522">> >>]
\* "parameters": [] , a JSON value that is not an object
ArrayParameters == [kind |-> "other", items |-> << >>]

ParameterValues ==
    {AbsentParameters, EmptyParameters, WeatherParameters, ArrayParameters}

DecisionValues == {"tool", "no_tool", Missing}

\* the function values explored: a tool without parameters, one with
\* parameters, an unregistered name, no function key, a list or dict
FunctionValues ==
    {"get_time_now", "get_weather", "no_such_tool", Missing, Unhashable}

\* an entry of tool_calls that is not a JSON object (a string, a number)
ScalarEntry ==
    [kind |-> "other", decision |-> Missing, reason |-> Missing,
     function |-> Missing, parameters |-> AbsentParameters]

Entries ==
    {ScalarEntry} \cup
    {[kind |-> "object", decision |-> d, reason |-> "because", function |-> f,
      parameters |-> p] :
        d \in DecisionValues, f \in FunctionValues, p \in ParameterValues}

EntrySeqs == UNION {[1..n -> Entries] : n \in 0..MaxDecisions}

\* no response received yet
NoContent == [kind |-> "none", tool_calls_kind |-> "absent", tool_calls |-> << >>]

\* kind: "invalid" is text that is not JSON, "other" a JSON value that is not
\* an object; tool_calls_kind: "absent" no such key, "other" a value that
\* cannot be iterated (null, a number), "array" a JSON array
Contents ==
    {[kind |-> k, tool_calls_kind |-> "absent", tool_calls |-> << >>] :
        k \in {"invalid", "other", "object"}}
    \cup {[kind |-> "object", tool_calls_kind |-> "other", tool_calls |-> << >>]}
    \cup {[kind |-> "object", tool_calls_kind |-> "array", tool_calls |-> s] :
            s \in EntrySeqs}

Queries == {"How's the weather in Paris?"}

Answers == {<<"It is sunny in Paris.">>}

\* the schema of _build_dynamic_schema, as a predicate on a parsed response
ConformsToSchema(c) ==
    /\ c.kind = "object"
    /\ c.tool_calls_kind = "array"
    /\ \A i \in 1..Len(c.tool_calls) :
        LET e == c.tool_calls[i]
        IN  /\ e.kind = "object"
            /\ e.decision \notin {Missing}
            /\ e.reason \notin {Missing}
            /\ e.function \notin {Missing, Unhashable}
            /\ e.parameters.kind = "object"

----------------------------------------------------------------------------
(* AgentExecutor, main.py *)

NoValue == StrValue(<< >>)

NoCall == [k |-> 0, name |-> "", func |-> None, args |-> EmptyParameters]

\* the mutant of json_loads: text that is not JSON is read as {}
json_loads_default(c) ==
    IF c.kind = "invalid"
    THEN [raised |-> FALSE,
          value |-> [kind |-> "object", tool_calls_kind |-> "absent",
                     tool_calls |-> << >>]]
    ELSE [raised |-> FALSE, value |-> c]

\* json.loads(response...message.content), line 123
json_loads(c) ==
    IF c.kind = "invalid"
    THEN [raised |-> TRUE, value |-> c]
    ELSE [raised |-> FALSE, value |-> c]

\* decisions_json.get("tool_calls", []) and iter() of it, line 132:
\* AttributeError when decisions_json is not a dict, TypeError when the
\* value of tool_calls cannot be iterated
loop_iterable(v) ==
    IF v.kind # "object" THEN [raised |-> TRUE, seq |-> << >>]
    ELSE IF v.tool_calls_kind = "absent" THEN [raised |-> FALSE, seq |-> << >>]
    ELSE IF v.tool_calls_kind = "array" THEN [raised |-> FALSE, seq |-> v.tool_calls]
    ELSE [raised |-> TRUE, seq |-> << >>]

\* the mutant of next_index: the decisions are taken last to first
next_index_reversed(seq, done) == Len(seq) - done

\* the for loop of line 132: the position of the decision taken after
\* done iterations
next_index(seq, done) == done + 1

\* the mutant of is_tool: everything but "no_tool" counts as a tool call
is_tool_unless_no_tool(decision) == decision.decision # "no_tool"

\* decision.get("decision") == "tool", line 133
is_tool(decision) == decision.decision = "tool"

\* f"Function '{func_name}' not found.", line 157
NotFound(func_name) == StrValue(<<"Function '", func_name, "' not found.">>)

\* the mutant of _execute_tool: the callable is looked up with
\* self.tools[name]["function"], which raises for an unregistered name
_execute_tool_strict(d, decision) ==
    IF decision.function = Missing
    THEN [kind |-> "raise", func |-> None, args |-> EmptyParameters, result |-> NoValue]
    ELSE IF decision.function = Unhashable
    THEN [kind |-> "raise", func |-> None, args |-> EmptyParameters, result |-> NoValue]
    ELSE LET args == IF decision.parameters.kind = "absent"
                     THEN EmptyParameters ELSE decision.parameters
             func == get_callable(d, decision.function)
         IN  IF IndexOf(d, decision.function) = 0
             THEN [kind |-> "raise", func |-> None, args |-> args, result |-> NoValue]
             ELSE IF Callable(func)
             THEN [kind |-> "call", func |-> func, args |-> args, result |-> NoValue]
             ELSE [kind |-> "result", func |-> func, args |-> args,
                   result |-> NotFound(decision.function)]

\* the mutant of _execute_tool: the callable is called without arguments
_execute_tool_no_args(d, decision) ==
    IF decision.function = Missing
    THEN [kind |-> "raise", func |-> None, args |-> EmptyParameters, result |-> NoValue]
    ELSE IF decision.function = Unhashable
    THEN [kind |-> "raise", func |-> None, args |-> EmptyParameters, result |-> NoValue]
    ELSE LET func == get_callable(d, decision.function)
         IN  IF Callable(func)
             THEN [kind |-> "call", func |-> func, args |-> EmptyParameters,
                   result |-> NoValue]
             ELSE [kind |-> "result", func |-> func, args |-> EmptyParameters,
                   result |-> NotFound(decision.function)]

\* _execute_tool up to the call, lines 144-148 and 157:
\*   "raise"  decision["function"] raised KeyError, or the lookup of a list
\*            or dict raised TypeError (neither is inside the try)
\*   "call"   the callable func is about to be called with **args
\*   "result" the name resolved to nothing callable
_execute_tool(d, decision) ==
    IF decision.function = Missing
    THEN [kind |-> "raise", func |-> None, args |-> EmptyParameters, result |-> NoValue]
    ELSE IF decision.function = Unhashable
    THEN [kind |-> "raise", func |-> None, args |-> EmptyParameters, result |-> NoValue]
    ELSE LET args == IF decision.parameters.kind = "absent"
                     THEN EmptyParameters ELSE decision.parameters
             func == get_callable(d, decision.function)
         IN  IF Callable(func)
             THEN [kind |-> "call", func |-> func, args |-> args, result |-> NoValue]
             ELSE [kind |-> "result", func |-> func, args |-> args,
                   result |-> NotFound(decision.function)]

\* the mutant of tool_response: the message is returned without its prefix
tool_response_bare(outcome) == outcome.value

\* lines 149-155: the value of _execute_tool once the call has ended
tool_response(outcome) ==
    IF outcome.kind = "return" THEN outcome.value
    ELSE StrValue(<<"Error: ">> \o outcome.value.body)

\* "\n".join(lines)
RECURSIVE join_lines(_)
join_lines(lines) ==
    IF lines = << >> THEN << >>
    ELSE lines[1] \o (IF Len(lines) > 1 THEN <<"\n">> ELSE << >>)
         \o join_lines(Tail(lines))

\* line 176: "- Tool 'name' returned: " followed by json.dumps(result); the
\* quotes around the name stand for the backquotes of the source
summary_line(pair) ==
    <<"- Tool '", pair[1], "' returned: ">> \o dumps_value(pair[2])

\* lines 175-177
tool_summary(results) ==
    join_lines([i \in 1..Len(results) |-> summary_line(results[i])])

\* the mutant of finalize_messages: the final request is built from the two
\* opening messages only
finalize_messages_fresh(msgs, original_query, results) ==
    <<msgs[1], msgs[2]>>
    \o << SystemMessage(SynthesisInstruction),
          UserMessage(<<"User question: ", original_query>>),
          UserMessage(<<"Tool Results:\n">> \o tool_summary(results)) >>

\* the three appends of _finalize_response, lines 162-178
finalize_messages(msgs, original_query, results) ==
    msgs
    \o << SystemMessage(SynthesisInstruction),
          UserMessage(<<"User question: ", original_query>>),
          UserMessage(<<"Tool Results:\n">> \o tool_summary(results)) >>

----------------------------------------------------------------------------
(* Actions *)

\* an uncaught exception ends run
Raise(where) ==
    /\ pc' = "Failed"
    /\ failedAt' = where
    /\ UNCHANGED <<tools, history, user_query, tool_calls, idx, messages,
                   tool_results, running, calls, sentDecision, sentSynthesis,
                   answer>>

\* registry.register(...), before any run
Register(name, function, description, parameters) ==
    /\ pc = "Start"
    /\ Len(history) < MaxRegs
    /\ tools' = register(tools, name, function, description, parameters)
    /\ history' = Append(history, [name |-> name, function |-> function,
                                   description |-> description,
                                   parameters |-> parameters])
    /\ UNCHANGED runVars

\* run, lines 107-121: the decision request is sent
RequestDecision(q) ==
    /\ pc = "Start"
    /\ user_query' = q
    /\ messages' = << SystemMessage(_generate_instruction(tools)),
                      UserMessage(<<q>>) >>
    /\ sentDecision' = messages'
    /\ pc' = "DecisionRequested"
    /\ UNCHANGED <<tools, history, failedAt, content, tool_calls, idx,
                   tool_results, running, calls, sentSynthesis, answer>>

\* OrchestrationService(...).run() raises, line 121
DecisionRequestFails ==
    /\ pc = "DecisionRequested"
    /\ content' = content
    /\ Raise("DecisionRequested")

\* the response arrives: lines 123-132 up to the first iteration
ParseDecisions ==
    /\ pc = "DecisionRequested"
    /\ \E c \in Contents :
        /\ content' = c
        /\ LET parsed == json_loads(c)
               it == loop_iterable(parsed.value)
           IN  IF parsed.raised \/ it.raised
               THEN Raise("DecisionsParsed")
               ELSE /\ tool_results' = << >>
                    /\ messages' = <<messages[1], messages[2]>>
                    /\ tool_calls' = it.seq
                    /\ idx' = 0
                    /\ pc' = "DecisionsParsed"
                    /\ UNCHANGED <<tools, history, failedAt, user_query,
                                   running, calls, sentDecision, sentSynthesis,
                                   answer>>

\* one iteration of the loop, lines 132-138, up to the call of the tool
ExecuteDecision ==
    /\ pc = "DecisionsParsed"
    /\ running = NoCall
    /\ idx < Len(tool_calls)
    /\ content' = content
    /\ LET k == next_index(tool_calls, idx)
           decision == tool_calls[k]
       IN  IF decision.kind # "object"
           THEN Raise("Executing")
           ELSE IF ~is_tool(decision)
           THEN /\ messages' = Append(messages,
                                      AssistantMessage(dumps_decision(decision)))
                /\ idx' = idx + 1
                /\ UNCHANGED <<tools, history, pc, failedAt, user_query,
                               tool_calls, tool_results, running, calls,
                               sentDecision, sentSynthesis, answer>>
           ELSE LET r == _execute_tool(tools, decision)
                IN  CASE r.kind = "raise" -> Raise("Executing")
                      [] r.kind = "result" ->
                            /\ tool_results' = Append(tool_results,
                                                      <<decision.function, r.result>>)
                            /\ messages' = Append(messages,
                                    AssistantMessage(dumps_decision(decision)))
                            /\ idx' = idx + 1
                            /\ UNCHANGED <<tools, history, pc, failedAt,
                                           user_query, tool_calls, running,
                                           calls, sentDecision, sentSynthesis,
                                           answer>>
                      [] r.kind = "call" ->
                            /\ running' = [k |-> k, name |-> decision.function,
                                           func |-> r.func, args |-> r.args]
                            /\ calls' = Append(calls,
                                    [ev |-> "call", k |-> k, func |-> r.func,
                                     args |-> r.args, value |-> NoValue])
                            /\ UNCHANGED <<tools, history, pc, failedAt,
                                           user_query, tool_calls, idx,
                                           messages, tool_results,
                                           sentDecision, sentSynthesis, answer>>

\* the call func called with args as keyword arguments ends: lines 150-155 and 135-136
ToolCompletes ==
    /\ pc = "DecisionsParsed"
    /\ running # NoCall
    /\ \E outcome \in Outcomes(running.func, running.args) :
        /\ calls' = Append(calls, [ev |-> outcome.kind, k |-> running.k,
                                   func |-> running.func, args |-> running.args,
                                   value |-> outcome.value])
        /\ tool_results' = Append(tool_results,
                                  <<running.name, tool_response(outcome)>>)
    /\ messages' = Append(messages,
                          AssistantMessage(dumps_decision(tool_calls[running.k])))
    /\ idx' = idx + 1
    /\ running' = NoCall
    /\ UNCHANGED <<tools, history, pc, failedAt, user_query, content,
                   tool_calls, sentDecision, sentSynthesis, answer>>

\* the loop is exhausted, line 141
FinishExecution ==
    /\ pc = "DecisionsParsed"
    /\ running = NoCall
    /\ idx = Len(tool_calls)
    /\ pc' = "ToolsExecuted"
    /\ UNCHANGED <<tools, history, failedAt, user_query, content, tool_calls,
                   idx, messages, tool_results, running, calls, sentDecision,
                   sentSynthesis, answer>>

\* _finalize_response, lines 159-184: the synthesis request is sent
RequestSynthesis ==
    /\ pc = "ToolsExecuted"
    /\ messages' = finalize_messages(messages, user_query, tool_results)
    /\ sentSynthesis' = messages'
    /\ pc' = "SynthesisRequested"
    /\ UNCHANGED <<tools, history, failedAt, user_query, content, tool_calls,
                   idx, tool_results, running, calls, sentDecision, answer>>

\* OrchestrationService(...).run() raises, line 184
SynthesisRequestFails ==
    /\ pc = "SynthesisRequested"
    /\ content' = content
    /\ Raise("SynthesisRequested")

\* the final answer arrives, line 185
ReturnAnswer(text) ==
    /\ pc = "SynthesisRequested"
    /\ answer' = text
    /\ pc' = "Done"
    /\ UNCHANGED <<tools, history, failedAt, user_query, content, tool_calls,
                   idx, messages, tool_results, running, calls, sentDecision,
                   sentSynthesis>>

----------------------------------------------------------------------------
(* Specifications *)

RunInit ==
    /\ pc = "Start"
    /\ failedAt = "nowhere"
    /\ user_query = ""
    /\ content = NoContent
    /\ tool_calls = << >>
    /\ idx = 0
    /\ messages = << >>
    /\ tool_results = << >>
    /\ running = NoCall
    /\ calls = << >>
    /\ sentDecision = << >>
    /\ sentSynthesis = << >>
    /\ answer = << >>

\* the module-level statements of main.py have run: lines 13-38
Init ==
    /\ history = ProgramRegistrations
    /\ tools = RegisterAll(ProgramRegistrations)
    /\ RunInit

Next ==
    \/ \E q \in Queries : RequestDecision(q)
    \/ DecisionRequestFails
    \/ ParseDecisions
    \/ ExecuteDecision
    \/ ToolCompletes
    \/ FinishExecution
    \/ RequestSynthesis
    \/ SynthesisRequestFails
    \/ \E a \in Answers : ReturnAnswer(a)

Spec == Init /\ [][Next]_vars

\* what register is called with in SpecRegistry
RegNames == {"get_weather", "get_time_now"}
RegFunctions == {"get_weather", "get_time_now"}
RegDescriptions == {"first description", "second description"}
RegParameters == {<< >>, WeatherSpec}

\* a fresh ToolRegistry(): utils.py lines 3-4
InitRegistry ==
    /\ history = << >>
    /\ tools = << >>
    /\ RunInit

NextRegistry ==
    \E n \in RegNames, f \in RegFunctions, dsc \in RegDescriptions,
       p \in RegParameters : Register(n, f, dsc, p)

SpecRegistry == InitRegistry /\ [][NextRegistry]_vars

----------------------------------------------------------------------------
(* Vocabulary of the properties *)

\* the positions of tool_calls holding a decision with decision == "tool"
ToolPositions ==
    {i \in 1..Len(tool_calls) :
        tool_calls[i].kind = "object" /\ tool_calls[i].decision = "tool"}

\* how many tool decisions stand at or before position i
Rank(i) == Cardinality({j \in ToolPositions : j <= i})

\* the names some register call was made for
RegisteredNames == {history[j].name : j \in 1..Len(history)}

\* the most recent register call for a registered name
LastRegistration(name) ==
    history[CHOOSE j \in 1..Len(history) :
                /\ history[j].name = name
                /\ \A l \in (j + 1)..Len(history) : history[l].name # name]

\* a function value that is a name, and one no register call was made for
IsName(f) == f \notin {Missing, Unhashable}
UnregisteredName(f) == IsName(f) /\ f \notin RegisteredNames

\* part occurs in text as a run of consecutive tokens
Contains(text, part) ==
    \E a \in 1..(Len(text) - Len(part) + 1) :
        SubSeq(text, a, a + Len(part) - 1) = part

\* the events of the call log that belong to the decision at position i
EventsOf(i) == {j \in 1..Len(calls) : calls[j].k = i}

\* the text of the last message of the synthesis request
SynthesisSummary == sentSynthesis[Len(sentSynthesis)].content

----------------------------------------------------------------------------
(* Properties *)

\* C1: a decision with decision == "tool" whose function name is not
\* registered gets the result "Function '<name>' not found.": no callable is
\* called for it, the run does not fail on it, the result is the entry of
\* tool_results for that decision, and it is in the tool-results message of
\* the synthesis request.
C1_UnregisteredToolNotFound ==
    /\ \A i \in ToolPositions :
        (i <= idx /\ UnregisteredName(tool_calls[i].function)) =>
            LET name == tool_calls[i].function
                text == <<"Function '", name, "' not found.">>
            IN  /\ EventsOf(i) = {}
                /\ Rank(i) <= Len(tool_results)
                /\ tool_results[Rank(i)] = <<name, StrValue(text)>>
                /\ sentSynthesis # << >> =>
                    Contains(SynthesisSummary,
                             <<"- Tool '", name, "' returned: ", "\"">>
                             \o text \o <<"\"">>)
    /\ (pc = "Failed" /\ failedAt = "Executing") =>
        ~ /\ (idx + 1) \in ToolPositions
          /\ UnregisteredName(tool_calls[idx + 1].function)

\* C1 witness: the first of two decisions named an unregistered tool and the
\* run went on to the synthesis request
C1_Witness ==
    /\ pc = "SynthesisRequested"
    /\ Len(tool_calls) = 2
    /\ 1 \in ToolPositions
    /\ tool_calls[1].function = "no_such_tool"

\* C2: when the callable of a tool decision raises an exception with message
\* M, the result recorded for the decision is "Error: M", the callable was
\* called once, and the loop has moved on to the next decision.
C2_ToolExceptionBecomesResult ==
    \A j \in 1..Len(calls) :
        calls[j].ev = "raise" =>
            LET i == calls[j].k
            IN  /\ i \in ToolPositions
                /\ i <= idx
                /\ Cardinality({l \in EventsOf(i) : calls[l].ev = "call"}) = 1
                /\ Cardinality({l \in EventsOf(i) : calls[l].ev # "call"}) = 1
                /\ Rank(i) <= Len(tool_results)
                /\ tool_results[Rank(i)] =
                    <<tool_calls[i].function,
                      StrValue(<<"Error: ">> \o calls[j].value.body)>>
                /\ (pc = "Failed" /\ failedAt = "Executing") => idx + 1 > i

\* C2 witness: the body of the first tool raised and the second decision was
\* executed after it
C2_Witness ==
    /\ Len(calls) >= 2
    /\ calls[2].ev = "raise"
    /\ calls[2].k = 1
    /\ calls[2].value.body = <<"'current'">>
    /\ idx = 2
    /\ Len(tool_results) = 2

\* C3: a decision whose decision is not "tool" calls nothing and adds exactly
\* one Assistant message, the serialized decision, at its place in the
\* conversation.
C3_NonToolDecisionOnlyAppends ==
    /\ pc = "DecisionsParsed" =>
        /\ Len(messages) = 2 + idx
        /\ Len(tool_results) = Rank(idx)
    /\ \A i \in 1..Len(tool_calls) :
        (i <= idx /\ i \notin ToolPositions) =>
            /\ EventsOf(i) = {}
            /\ messages[2 + i] = [role |-> "assistant",
                                  content |-> dumps_decision(tool_calls[i])]
    /\ (running # NoCall) => running.k \in ToolPositions

\* C3 witness: a no_tool decision and a decision without the decision key
\* were both passed over
C3_Witness ==
    /\ pc = "ToolsExecuted"
    /\ Len(tool_calls) = 2
    /\ tool_calls[1].decision = "no_tool"
    /\ tool_calls[2].kind = "object"
    /\ tool_calls[2].decision = Missing
    /\ tool_calls[2].function = "get_time_now"

\* the position of the r-th tool decision
NthToolPosition(r) == CHOOSE i \in ToolPositions : Rank(i) = r

\* C4: tools are called one at a time in decision order: every call has
\* ended before the next begins, calls begin in the order of their
\* decisions, and tool_results lists the pairs in that order.
C4_SequentialInDecisionOrder ==
    /\ \A j \in 1..Len(calls) :
        IF j % 2 = 1
        THEN calls[j].ev = "call"
        ELSE calls[j].ev \in {"return", "raise"} /\ calls[j].k = calls[j - 1].k
    /\ \A a, b \in 1..Len(calls) :
        (a < b /\ calls[a].ev = "call" /\ calls[b].ev = "call") =>
            calls[a].k < calls[b].k
    /\ (running # NoCall) <=> (Len(calls) % 2 = 1)
    /\ Len(tool_results) <= Cardinality(ToolPositions)
    /\ \A r \in 1..Len(tool_results) :
        tool_results[r][1] = tool_calls[NthToolPosition(r)].function
    /\ \A j \in 1..Len(calls) :
        calls[j].ev # "call" =>
            /\ Rank(calls[j].k) <= Len(tool_results)
            /\ tool_results[Rank(calls[j].k)][2] \in
                {calls[j].value, StrValue(<<"Error: ">> \o calls[j].value.body)}

\* C4 witness: two tools were called, the clock and then the weather
C4_Witness ==
    /\ Len(calls) = 4
    /\ calls[1].func = "get_time_now"
    /\ calls[3].func = "get_weather"
    /\ pc = "Done"

\* C5: for a tool decision whose name is registered with a callable, the
\* callable is called exactly once with the decision's parameters as keyword
\* arguments (none when there are none), and a value it returns is paired
\* with the name in tool_results and in the tool-results message of the
\* synthesis request.
C5_RegisteredToolCalledOnce ==
    \A i \in ToolPositions :
        LET name == tool_calls[i].function
        IN  (i <= idx /\ IsName(name) /\ name \in RegisteredNames
                /\ Callable(LastRegistration(name).function)) =>
            /\ Cardinality({j \in EventsOf(i) : calls[j].ev = "call"}) = 1
            /\ \A j \in EventsOf(i) :
                /\ calls[j].func = LastRegistration(name).function
                /\ calls[j].args.kind = "object" =>
                    calls[j].args.items = tool_calls[i].parameters.items
                /\ tool_calls[i].parameters.kind \in {"absent", "object"} =>
                    /\ calls[j].args.kind = "object"
                    /\ calls[j].args.items = tool_calls[i].parameters.items
                /\ calls[j].ev = "return" =>
                    /\ tool_results[Rank(i)] = <<name, calls[j].value>>
                    /\ sentSynthesis # << >> =>
                        Contains(SynthesisSummary,
                                 <<"- Tool '", name, "' returned: ", "{">>
                                 \o calls[j].value.body \o <<"}">>)

\* C5 witness: the weather tool was called with both coordinates, the clock
\* with nothing, both returned and the synthesis request was sent
C5_Witness ==
    /\ pc = "SynthesisRequested"
    /\ Len(calls) = 4
    /\ calls[2].ev = "return"
    /\ calls[2].func = "get_weather"
    /\ calls[2].args = WeatherParameters
    /\ calls[4].ev = "return"
    /\ calls[4].func = "get_time_now"
    /\ calls[4].args = EmptyParameters

\* C6: after any register calls, get_description_for_prompt() has exactly the
\* registered names as keys, and under each name exactly the description and
\* parameter_spec last stored for it, without the callable.
C6_ManifestMatchesRegistry ==
    LET manifest == get_description_for_prompt(tools)
    IN  /\ {manifest[i].name : i \in 1..Len(manifest)} = RegisteredNames
        /\ \A i, j \in 1..Len(manifest) :
            manifest[i].name = manifest[j].name => i = j
        /\ \A i \in 1..Len(manifest) :
            /\ DOMAIN manifest[i].value = {"description", "parameters"}
            /\ manifest[i].value.description =
                LastRegistration(manifest[i].name).description
            /\ manifest[i].value.parameters =
                LastRegistration(manifest[i].name).parameters

\* C6 witness: two names are registered, one of them twice with different
\* descriptions and parameter specs
C6_Witness ==
    /\ Len(history) = 3
    /\ history[1].name = history[3].name
    /\ history[1].description # history[3].description
    /\ history[1].parameters # history[3].parameters
    /\ history[2].name # history[1].name

\* C7 as stated: a response that is not valid JSON or does not conform to the
\* schema aborts the run at parsing, no tool is executed and the synthesis is
\* never requested.
C7_NonConformingResponseAborts ==
    (content # NoContent /\ ~ (content.kind # "invalid" /\ ConformsToSchema(content)))
        => /\ pc = "Failed"
           /\ failedAt = "DecisionsParsed"
           /\ calls = << >>
           /\ sentSynthesis = << >>

\* C7 amended: a response that is not valid JSON, or is JSON but not an
\* object, or whose tool_calls value cannot be iterated, aborts the run
\* before the first decision: no tool is executed, nothing is recorded and
\* the synthesis is never requested.
C7_UnreadableResponseAborts ==
    (content.kind \in {"invalid", "other"} \/ content.tool_calls_kind = "other")
        => /\ pc = "Failed"
           /\ failedAt = "DecisionsParsed"
           /\ calls = << >>
           /\ tool_results = << >>
           /\ running = NoCall
           /\ sentSynthesis = << >>
           /\ answer = << >>

\* C7 witness: the response was not JSON and the run has failed
C7_Witness ==
    /\ content.kind = "invalid"
    /\ pc = "Failed"

\* C8: after any register calls, get_callable(name) is the callable of the
\* most recent register call for name, the whole descriptor being the one of
\* that call, and None for a name never registered.
C8_LastRegistrationWins ==
    \A n \in RegNames \cup {"no_such_tool"} :
        IF n \in RegisteredNames
        THEN /\ get_callable(tools, n) = LastRegistration(n).function
             /\ \E i \in 1..Len(tools) : tools[i] = LastRegistration(n)
             /\ Cardinality({i \in 1..Len(tools) : tools[i].name = n}) = 1
        ELSE get_callable(tools, n) = None

\* C8 witness: a name was registered twice with different callables while
\* another name was never registered
C8_Witness ==
    /\ Len(history) = 2
    /\ history[1].name = history[2].name
    /\ history[1].function # history[2].function
    /\ RegisteredNames # RegNames

\* the steps of the state machine of the run
PhaseStep(from, to) ==
    \/ from = "Start" /\ to = "DecisionRequested"
    \/ from = "DecisionRequested" /\ to \in {"DecisionsParsed", "Failed"}
    \/ from = "DecisionsParsed" /\ to \in {"DecisionsParsed", "ToolsExecuted"}
    \/ from = "ToolsExecuted" /\ to = "SynthesisRequested"
    \/ from = "SynthesisRequested" /\ to \in {"Done", "Failed"}

\* C9 as stated: a run goes through Start, DecisionRequested,
\* DecisionsParsed, ToolsExecuted, SynthesisRequested, Done in this order and
\* fails only at the two requests to the model or at parsing, never while the
\* decisions are executed or the synthesis input is built.
C9_FailsOnlyAtParsingOrTransport ==
    /\ [][PhaseStep(pc, pc')]_pc
    /\ [](pc = "Failed" =>
            failedAt \in {"DecisionRequested", "DecisionsParsed",
                          "SynthesisRequested"})

\* C10: the conversation only grows, and the synthesis request holds the two
\* messages of the decision request, then one Assistant message per decision
\* in decision order, then the synthesis instruction, the user question and
\* the tool results.
C10_ConversationAppendOnly ==
    /\ [][/\ Len(messages') >= Len(messages)
          /\ SubSeq(messages', 1, Len(messages)) = messages]_messages
    /\ [](sentSynthesis # << >> =>
            /\ sentDecision = << [role |-> "system",
                                  content |-> _generate_instruction(tools)],
                                 [role |-> "user", content |-> <<user_query>>] >>
            /\ Len(sentSynthesis) = 2 + Len(tool_calls) + 3
            /\ SubSeq(sentSynthesis, 1, 2) = sentDecision
            /\ \A i \in 1..Len(tool_calls) :
                sentSynthesis[2 + i] =
                    [role |-> "assistant",
                     content |-> dumps_decision(tool_calls[i])]
            /\ LET n == 2 + Len(tool_calls)
               IN  /\ sentSynthesis[n + 1] =
                        [role |-> "system", content |-> SynthesisInstruction]
                   /\ sentSynthesis[n + 2] =
                        [role |-> "user",
                         content |-> <<"User question: ", user_query>>]
                   /\ sentSynthesis[n + 3].role = "user"
                   /\ sentSynthesis[n + 3].content =
                        <<"Tool Results:\n">> \o tool_summary(tool_results))

\* C10 witness: the synthesis request was sent after a tool decision and a
\* no_tool decision
C10_Witness ==
    /\ pc = "Done"
    /\ Len(tool_calls) = 2
    /\ Len(tool_results) = 1
    /\ tool_calls[2].decision = "no_tool"

====
